---- MODULE Spec2Model ----
(***************************************************************************)
(* A model of the core of json-visual-diff: TypeNormalizer (normalizer.ts), *)
(* LCSArrayDiff (lcs.ts), DiffEngine and diff() (diff.ts) and the tree      *)
(* helpers of DiffResultBuilder (result.ts).                                *)
(*                                                                          *)
(* JavaScript values are pairs <<tag, payload>>.  Everything with an         *)
(* identity (typeof v === 'object', v !== null) is a reference <<"ref", i>>  *)
(* into a heap, so that aliasing and reference cycles are representable.     *)
(***************************************************************************)
EXTENDS Integers, Sequences, FiniteSets, TLC

(***************************************************************************)
(* JavaScript values                                                        *)
(***************************************************************************)
Num(n) == <<"num", n>>
\* the number n + 0.5
NumAndHalf(n) == <<"half", n>>
Str(s) == <<"str", s>>
NaN == <<"nan", 0>>
Null == <<"null", 0>>
Undefined == <<"undef", 0>>
Infinity == <<"inf", 0>>
Ref(i) == <<"ref", i>>
Fn(i) == <<"func", i>>
Sym(d) == <<"sym", d>>

\* The marker of a field a node does not have ('oldValue' in node is false).
Absent == <<"absent", 0>>

\* An array object and a plain object of the heap.  A plain object keeps its
\* own keys in insertion order (Object.keys order).
Arr(elems) == [kind |-> "array", keys |-> <<>>, vals |-> elems, holes |-> {}]

\* A sparse array: vals[i] is what reading index i gives, which is undefined
\* at the indices that hold no element (holes); Array.prototype.every does
\* not visit those.
SparseArr(elems, holes) == [kind |-> "array", keys |-> <<>>, vals |-> elems, holes |-> holes]
Obj(ks, vs) == [kind |-> "object", keys |-> ks, vals |-> vs]

\* A Date object holding a time value, and a RegExp object holding its source
\* and its flags.
DateObj(time) == [kind |-> "date", keys |-> <<>>, vals |-> <<time>>]
RegExpObj(source, flags) == [kind |-> "regexp", keys |-> <<>>, vals |-> <<source, flags>>]

Range(s) == {s[i] : i \in 1..Len(s)}

\* a === b
StrictEq(a, b) == IF a[1] = "nan" \/ b[1] = "nan" THEN FALSE ELSE a = b

\* v == null
IsNullish(v) == v[1] \in {"null", "undef"}

\* value && typeof value === 'object'
IsObjectLike(v) == v[1] = "ref"

\* Properties every plain object inherits from Object.prototype; each is a
\* function value ('key in obj' is true for them, Object.keys omits them).
ObjectPrototypeKeys == {"toString", "constructor", "valueOf", "hasOwnProperty"}

IndexOfKey(ks, key) == CHOOSE i \in 1..Len(ks) : ks[i] = key

\* key in obj
HasProperty(o, key) == key \in Range(o.keys) \/ key \in ObjectPrototypeKeys

\* obj[key]
GetProperty(o, key) ==
  IF key \in Range(o.keys) THEN o.vals[IndexOfKey(o.keys, key)]
  ELSE IF key \in ObjectPrototypeKeys THEN Fn(key)
  ELSE Undefined

\* String(i) for an array index
Digits == <<"0", "1", "2", "3", "4", "5", "6", "7", "8", "9">>
\* Path segments that counted from one.
StringOneBased(i) == Digits[i + 2]

String(i) == Digits[i + 1]

(***************************************************************************)
(* TypeNormalizer                                                           *)
(***************************************************************************)
getValueType(h, value) ==
  IF value = Null THEN "null"
  ELSE IF value = Undefined THEN "undefined"
  ELSE IF value[1] = "sym" THEN "symbol"
  ELSE IF value[1] = "func" THEN "function"
  ELSE IF value[1] = "ref" /\ h[value[2]].kind = "date" THEN "date"
  ELSE IF value[1] = "ref" /\ h[value[2]].kind = "regexp" THEN "regexp"
  ELSE IF value[1] = "ref" /\ h[value[2]].kind = "array" THEN "array"
  ELSE IF value[1] = "ref" THEN "object"
  ELSE "primitive"

\* A function value Fn(t) is identified by its normalized source text t, a
\* symbol <<"sym", d>> by its description d.  A Date of the heap holds its time
\* value (a number, or NaN for an invalid date) in vals[1]; a RegExp holds its
\* source and its flags, each a sequence of characters, in vals[1] and vals[2].
normalizeFunction(fn) == Str(fn[2])
normalizeDate(h, date) == h[date[2]].vals[1]
\* A normal form that put nothing between the source and the flags.
normalizeRegExpWithoutSeparator(h, regexp) == h[regexp[2]].vals[1] \o h[regexp[2]].vals[2]

normalizeRegExp(h, regexp) == h[regexp[2]].vals[1] \o <<"|">> \o h[regexp[2]].vals[2]
\* symbol.toString(): the description between "Symbol(" and ")"
normalizeSymbol(symbol) == Str("Symbol(" \o symbol[2] \o ")")

\* The characters of a source or of flags, joined to one string.
RECURSIVE JoinChars(_)
JoinChars(chars) == IF chars = <<>> THEN "" ELSE Head(chars) \o JoinChars(Tail(chars))

\* Date.prototype.toISOString for a time value of a few milliseconds; an
\* invalid date (time NaN) makes it throw RangeError.
toISOString(time) ==
  IF time[1] # "num" THEN [thrown |-> TRUE, text |-> ""]
  ELSE [thrown |-> FALSE, text |-> "1970-01-01T00:00:00.00" \o String(time[2]) \o "Z"]

\* JSON.stringify(value).  stk holds the objects being rendered further up:
\* meeting one of them again is a circular structure, and JSON.stringify
\* throws TypeError.  A value that JSON cannot represent (undefined, a
\* function, a symbol) is rendered as null in an array, left out of an object
\* and gives undefined at the top: omitted says so.
RECURSIVE stringify(_, _, _)
RECURSIVE stringifyElems(_, _, _, _, _)
RECURSIVE stringifyProps(_, _, _, _, _, _)
JsonText(text) == [thrown |-> FALSE, omitted |-> FALSE, text |-> text]
JsonOmitted == [thrown |-> FALSE, omitted |-> TRUE, text |-> ""]
JsonThrown == [thrown |-> TRUE, omitted |-> FALSE, text |-> ""]

stringifyElems(h, vals, i, stk, text) ==
  IF i > Len(vals) THEN JsonText(text \o "]")
  ELSE LET r == stringify(h, vals[i], stk)
           sep == IF i = 1 THEN "" ELSE ","
       IN IF r.thrown THEN JsonThrown
          ELSE stringifyElems(h, vals, i + 1, stk,
                 text \o sep \o (IF r.omitted THEN "null" ELSE r.text))

stringifyProps(h, o, i, stk, text, first) ==
  IF i > Len(o.keys) THEN JsonText(text \o "}")
  ELSE LET r == stringify(h, o.vals[i], stk)
       IN IF r.thrown THEN JsonThrown
          ELSE IF r.omitted THEN stringifyProps(h, o, i + 1, stk, text, first)
          ELSE stringifyProps(h, o, i + 1, stk,
                 text \o (IF first THEN "" ELSE ",") \o "\"" \o o.keys[i] \o "\":" \o r.text,
                 FALSE)

stringify(h, value, stk) ==
  CASE value[1] = "num" -> JsonText(String(value[2]))
    [] value[1] \in {"nan", "inf", "null"} -> JsonText("null")
    [] value[1] = "str" -> JsonText("\"" \o value[2] \o "\"")
    [] value[1] \in {"undef", "func", "sym"} -> JsonOmitted
    [] value[1] = "ref" ->
         IF value[2] \in stk THEN JsonThrown
         ELSE IF h[value[2]].kind = "date"
           THEN (IF toISOString(h[value[2]].vals[1]).thrown THEN JsonText("null")
                 ELSE JsonText("\"" \o toISOString(h[value[2]].vals[1]).text \o "\""))
         ELSE IF h[value[2]].kind = "regexp" THEN JsonText("{}")
         ELSE IF h[value[2]].kind = "array"
           THEN stringifyElems(h, h[value[2]].vals, 1, stk \cup {value[2]}, "[")
         ELSE stringifyProps(h, h[value[2]], 1, stk \cup {value[2]}, "{", TRUE)

\* TypeNormalizer.serialize(value, type): the string, or the exception
serialize(h, value, type) ==
  CASE type = "function" -> [thrown |-> FALSE, value |-> normalizeFunction(value)]
    [] type = "date" ->
         LET iso == toISOString(normalizeDate(h, value))
         IN IF iso.thrown THEN [thrown |-> TRUE, value |-> Undefined]
            ELSE [thrown |-> FALSE, value |-> Str(iso.text)]
    [] type = "regexp" ->
         [thrown |-> FALSE,
          value |-> Str("/" \o JoinChars(h[value[2]].vals[1]) \o "/"
                          \o JoinChars(h[value[2]].vals[2]))]
    [] type = "symbol" -> [thrown |-> FALSE, value |-> normalizeSymbol(value)]
    [] type = "undefined" -> [thrown |-> FALSE, value |-> Str("undefined")]
    [] type = "null" -> [thrown |-> FALSE, value |-> Str("null")]
    [] OTHER ->
         LET json == stringify(h, value, {})
         IN IF json.thrown THEN [thrown |-> TRUE, value |-> Undefined]
            ELSE IF json.omitted THEN [thrown |-> FALSE, value |-> Undefined]
            ELSE [thrown |-> FALSE, value |-> Str(json.text)]

(***************************************************************************)
(* LCSArrayDiff                                                             *)
(***************************************************************************)
\* isEqual is a pure recursive function without a cycle guard.  A call whose
\* argument pair is already being compared further up the call stack repeats
\* that call for ever: the run ends in RangeError (stack overflow), which is
\* the result "overflow" here.  stk is the set of pairs under comparison.
RECURSIVE isEqual(_, _, _, _)
RECURSIVE everyElem(_, _, _, _, _)
RECURSIVE everyKey(_, _, _, _, _)

\* a.every((item, index) => isEqual(item, b[index])), from index i on
everyElem(h, a, b, i, stk) ==
  IF i > Len(h[a[2]].vals) THEN "true"
  ELSE IF i \in h[a[2]].holes THEN everyElem(h, a, b, i + 1, stk)
  ELSE LET r == isEqual(h, h[a[2]].vals[i], h[b[2]].vals[i], stk)
       IN IF r = "true" THEN everyElem(h, a, b, i + 1, stk) ELSE r

\* keysA.every(key => keysB.includes(key) && isEqual(a[key], b[key]))
everyKey(h, a, b, i, stk) ==
  IF i > Len(h[a[2]].keys) THEN "true"
  ELSE LET key == h[a[2]].keys[i]
       IN IF key \notin Range(h[b[2]].keys) THEN "false"
          ELSE LET r == isEqual(h, GetProperty(h[a[2]], key),
                                GetProperty(h[b[2]], key), stk)
               IN IF r = "true" THEN everyKey(h, a, b, i + 1, stk) ELSE r

isEqual(h, a, b, stk) ==
  IF StrictEq(a, b) THEN "true"
  ELSE IF IsNullish(a) \/ IsNullish(b)
    THEN (IF StrictEq(a, b) THEN "true" ELSE "false")
  ELSE LET typeA == getValueType(h, a)
           typeB == getValueType(h, b)
       IN IF typeA # typeB THEN "false"
          ELSE IF typeA = "array"
            THEN IF Len(h[a[2]].vals) # Len(h[b[2]].vals) THEN "false"
                 ELSE IF <<a, b>> \in stk THEN "overflow"
                 ELSE everyElem(h, a, b, 1, stk \cup {<<a, b>>})
          ELSE IF typeA = "object"
            THEN IF Len(h[a[2]].keys) # Len(h[b[2]].keys) THEN "false"
                 ELSE IF <<a, b>> \in stk THEN "overflow"
                 ELSE everyKey(h, a, b, 1, stk \cup {<<a, b>>})
          ELSE IF typeA = "function"
            THEN (IF normalizeFunction(a) = normalizeFunction(b) THEN "true" ELSE "false")
          ELSE IF typeA = "date"
            THEN (IF StrictEq(normalizeDate(h, a), normalizeDate(h, b)) THEN "true" ELSE "false")
          ELSE IF typeA = "regexp"
            THEN (IF normalizeRegExp(h, a) = normalizeRegExp(h, b) THEN "true" ELSE "false")
          ELSE IF typeA = "symbol"
            THEN (IF normalizeSymbol(a) = normalizeSymbol(b) THEN "true" ELSE "false")
          ELSE IF StrictEq(a, b) THEN "true" ELSE "false"

\* The dynamic-programming table of computeLCS: dp[i][j] is LCSTable[<<i, j>>].
\* The double loop calls isEqual on every pair (i, j) in row order; the first
\* call that overflows ends computeLCS with that exception.
Cells(m, n) == [k \in 1..(m * n) |-> <<((k - 1) \div n) + 1, ((k - 1) % n) + 1>>]

RECURSIVE computeLCSFrom(_, _, _, _, _)
computeLCSFrom(h, arr1, arr2, k, dp) ==
  LET m == Len(arr1)
      n == Len(arr2)
  IN IF k > m * n THEN [thrown |-> FALSE, dp |-> dp]
     ELSE LET i == Cells(m, n)[k][1]
              j == Cells(m, n)[k][2]
              eq == isEqual(h, arr1[i], arr2[j], {})
          IN IF eq = "overflow" THEN [thrown |-> TRUE, dp |-> dp]
             ELSE computeLCSFrom(h, arr1, arr2, k + 1,
                    [dp EXCEPT ![<<i, j>>] =
                       IF eq = "true" THEN dp[<<i - 1, j - 1>>] + 1
                       ELSE IF dp[<<i - 1, j>>] >= dp[<<i, j - 1>>]
                            THEN dp[<<i - 1, j>>] ELSE dp[<<i, j - 1>>]])

computeLCS(h, arr1, arr2) ==
  computeLCSFrom(h, arr1, arr2, 1,
                 [c \in (0..Len(arr1)) \X (0..Len(arr2)) |-> 0])

Op(type, index, value) == [type |-> type, index |-> index, value |-> value]

RECURSIVE backtrack(_, _, _, _, _, _)
\* A backtrack that never looked for equal elements.
backtrackWithoutKeep(h, arr1, arr2, dp, i, j) ==
  IF i = 0 /\ j = 0 THEN <<>>
  ELSE IF i = 0
    THEN Append(backtrack(h, arr1, arr2, dp, i, j - 1), Op("add", j - 1, arr2[j]))
  ELSE IF j = 0
    THEN Append(backtrack(h, arr1, arr2, dp, i - 1, j), Op("delete", i - 1, arr1[i]))
  ELSE IF dp[<<i - 1, j>>] > dp[<<i, j - 1>>]
    THEN Append(backtrack(h, arr1, arr2, dp, i - 1, j), Op("delete", i - 1, arr1[i]))
  ELSE Append(backtrack(h, arr1, arr2, dp, i, j - 1), Op("add", j - 1, arr2[j]))

\* A backtrack that steps up on a tie: dp[i-1][j] >= dp[i][j-1].
backtrackUpOnTie(h, arr1, arr2, dp, i, j) ==
  IF i = 0 /\ j = 0 THEN <<>>
  ELSE IF i = 0
    THEN Append(backtrack(h, arr1, arr2, dp, i, j - 1), Op("add", j - 1, arr2[j]))
  ELSE IF j = 0
    THEN Append(backtrack(h, arr1, arr2, dp, i - 1, j), Op("delete", i - 1, arr1[i]))
  ELSE IF isEqual(h, arr1[i], arr2[j], {}) = "true"
    THEN Append(backtrack(h, arr1, arr2, dp, i - 1, j - 1), Op("keep", i - 1, arr1[i]))
  ELSE IF dp[<<i - 1, j>>] >= dp[<<i, j - 1>>]
    THEN Append(backtrack(h, arr1, arr2, dp, i - 1, j), Op("delete", i - 1, arr1[i]))
  ELSE Append(backtrack(h, arr1, arr2, dp, i, j - 1), Op("add", j - 1, arr2[j]))

backtrack(h, arr1, arr2, dp, i, j) ==
  IF i = 0 /\ j = 0 THEN <<>>
  ELSE IF i = 0
    THEN Append(backtrack(h, arr1, arr2, dp, i, j - 1), Op("add", j - 1, arr2[j]))
  ELSE IF j = 0
    THEN Append(backtrack(h, arr1, arr2, dp, i - 1, j), Op("delete", i - 1, arr1[i]))
  ELSE IF isEqual(h, arr1[i], arr2[j], {}) = "true"
    THEN Append(backtrack(h, arr1, arr2, dp, i - 1, j - 1), Op("keep", i - 1, arr1[i]))
  ELSE IF dp[<<i - 1, j>>] > dp[<<i, j - 1>>]
    THEN Append(backtrack(h, arr1, arr2, dp, i - 1, j), Op("delete", i - 1, arr1[i]))
  ELSE Append(backtrack(h, arr1, arr2, dp, i, j - 1), Op("add", j - 1, arr2[j]))

\* LCSArrayDiff.diff
lcsDiff(h, arr1, arr2) ==
  LET t == computeLCS(h, arr1, arr2)
  IN IF t.thrown THEN [thrown |-> TRUE, ops |-> <<>>]
     ELSE [thrown |-> FALSE,
           ops |-> backtrack(h, arr1, arr2, t.dp, Len(arr1), Len(arr2))]

(***************************************************************************)
(* DiffEngine                                                               *)
(***************************************************************************)
\* A DiffNode.  hasOld / hasNew / hasChildren say which optional fields the
\* object literal that built the node has.
Node(type, path, valueType, hasOld, oldValue, hasNew, newValue, hasChildren, children) ==
  [type |-> type, path |-> path, valueType |-> valueType,
   hasOld |-> hasOld, oldValue |-> oldValue,
   hasNew |-> hasNew, newValue |-> newValue,
   hasChildren |-> hasChildren, children |-> children]

NoNode == Node("none", <<>>, "none", FALSE, Absent, FALSE, Absent, FALSE, <<>>)

\* What a call of diff() gives: the node it returns and the engine's
\* circularRefs afterwards, or thrown (RangeError: the call stack overflowed).
Returned(node, refs) == [thrown |-> FALSE, node |-> node, refs |-> refs]
Thrown(refs) == [thrown |-> TRUE, node |-> NoNode, refs |-> refs]

\* The constructor: options?.x ?? default
DefaultOptions ==
  [maxDepth |-> Infinity, ignoreKeys |-> <<>>, arrayDiffMode |-> "lcs",
   detectCircular |-> TRUE]

\* options.given is the set of fields the caller's DiffOptions object sets.
constructor(options) ==
  [maxDepth |-> IF "maxDepth" \in options.given THEN options.maxDepth
                ELSE DefaultOptions.maxDepth,
   ignoreKeys |-> IF "ignoreKeys" \in options.given THEN options.ignoreKeys
                  ELSE DefaultOptions.ignoreKeys,
   arrayDiffMode |-> IF "arrayDiffMode" \in options.given THEN options.arrayDiffMode
                     ELSE DefaultOptions.arrayDiffMode,
   detectCircular |-> IF "detectCircular" \in options.given THEN options.detectCircular
                      ELSE DefaultOptions.detectCircular]

isCircular(refs, value) ==
  IF ~IsObjectLike(value) THEN FALSE ELSE value[2] \in refs

CircularMarker == Str("[Circular Reference]")
MaxDepthMarker == Str("[Max Depth Reached]")

createCircularNode(path, oldValue, newValue) ==
  Node("modified", path, "object", TRUE, CircularMarker, TRUE, CircularMarker, FALSE, <<>>)

\* An engine that classified the depth-limit leaf by the new value's kind.
createMaxDepthNodeOfNewKind(h, path, oldValue, newValue) ==
  Node(IF StrictEq(oldValue, newValue) THEN "unchanged" ELSE "modified",
       path, getValueType(h, newValue),
       TRUE, MaxDepthMarker, TRUE, MaxDepthMarker, FALSE, <<>>)

createMaxDepthNode(h, path, oldValue, newValue) ==
  Node(IF StrictEq(oldValue, newValue) THEN "unchanged" ELSE "modified",
       path, getValueType(h, oldValue),
       TRUE, MaxDepthMarker, TRUE, MaxDepthMarker, FALSE, <<>>)

createModifiedNode(path, oldValue, newValue, oldType, newType) ==
  Node("modified", path, oldType, TRUE, oldValue, TRUE, newValue, FALSE, <<>>)

diffPrimitive(oldValue, newValue, path, valueType) ==
  IF StrictEq(oldValue, newValue)
  THEN Node("unchanged", path, valueType, TRUE, oldValue, TRUE, newValue, FALSE, <<>>)
  ELSE Node("modified", path, valueType, TRUE, oldValue, TRUE, newValue, FALSE, <<>>)

\* The object literals of a Deleted and of an Added child (diffObject, and both
\* modes of diffArray): the one carries oldValue only, the other newValue only.
\* A Deleted literal that also carried a newValue field.
deletedNodeWithNewValue(path, valueType, oldValue) ==
  Node("deleted", path, valueType, TRUE, oldValue, TRUE, Undefined, FALSE, <<>>)

deletedNode(path, valueType, oldValue) ==
  Node("deleted", path, valueType, TRUE, oldValue, FALSE, Absent, FALSE, <<>>)

\* An Added literal that took the path of its parent.
addedNodeAtParentPath(path, valueType, newValue) ==
  Node("added", SubSeq(path, 1, Len(path) - 1), valueType, FALSE, Absent, TRUE,
       newValue, FALSE, <<>>)

addedNode(path, valueType, newValue) ==
  Node("added", path, valueType, FALSE, Absent, TRUE, newValue, FALSE, <<>>)

\* this.options.ignoreKeys.includes(key)
\* An engine that skipped no key.
isIgnoredNever(ignoreKeys, key) == FALSE

isIgnored(ignoreKeys, key) == key \in Range(ignoreKeys)

\* An engine that stops one level too late: path.length > maxDepth.
depthReachedBeyond(path, maxDepth) ==
  IF maxDepth[1] \in {"num", "half"} THEN Len(path) > maxDepth[2] ELSE FALSE

\* path.length >= this.options.maxDepth
depthReached(path, maxDepth) ==
  IF maxDepth[1] = "num" THEN Len(path) >= maxDepth[2]
  ELSE IF maxDepth[1] = "half" THEN Len(path) > maxDepth[2]
  ELSE FALSE

\* the marking step of diff(): circularRefs.add(oldValue), .add(newValue)
markVisited(refs, oldValue, newValue) ==
  refs \cup (IF IsObjectLike(oldValue) THEN {oldValue[2]} ELSE {})
       \cup (IF IsObjectLike(newValue) THEN {newValue[2]} ELSE {})

\* new Set([...oldKeys, ...newKeys]) in iteration order
allKeysOf(oldKeys, newKeys) ==
  oldKeys \o SelectSeq(newKeys, LAMBDA k : k \notin Range(oldKeys))

\* children.some(child => child.type !== DiffType.UNCHANGED)
\* A parent that never looked at its children.
hasChangesNever(children) == FALSE

hasChanges(children) == \E i \in 1..Len(children) : children[i].type # "unchanged"

\* e is the engine as far as diff() reads it: [heap, options].  refs is
\* this.circularRefs.  stk is the set of (old, new) pairs of the diff() calls
\* on the call stack, kept to tell when the recursion cannot end.
RECURSIVE diff(_, _, _, _, _, _)
RECURSIVE diffObjectFrom(_, _, _, _, _, _, _, _, _)
RECURSIVE diffArrayLcsFrom(_, _, _, _, _, _, _, _, _, _, _)
RECURSIVE diffArrayPositionFrom(_, _, _, _, _, _, _, _)

\* the for loop of diffObject over allKeys, from the i-th key on
diffObjectFrom(e, refs, stk, oldValue, newValue, path, keys, i, children) ==
  IF i > Len(keys) THEN [thrown |-> FALSE, children |-> children, refs |-> refs]
  ELSE LET key == keys[i]
           o == e.heap[oldValue[2]]
           n == e.heap[newValue[2]]
           hasOld == HasProperty(o, key)
           hasNew == HasProperty(n, key)
       IN IF isIgnored(e.options.ignoreKeys, key)
          THEN diffObjectFrom(e, refs, stk, oldValue, newValue, path, keys, i + 1, children)
          ELSE IF hasOld /\ hasNew
          THEN LET r == diff(e, refs, stk, GetProperty(o, key), GetProperty(n, key),
                             Append(path, key))
               IN IF r.thrown THEN [thrown |-> TRUE, children |-> children, refs |-> r.refs]
                  ELSE diffObjectFrom(e, r.refs, stk, oldValue, newValue, path, keys, i + 1,
                                      Append(children, r.node))
          ELSE IF hasOld /\ ~hasNew
          THEN diffObjectFrom(e, refs, stk, oldValue, newValue, path, keys, i + 1,
                 Append(children,
                   deletedNode(Append(path, key), getValueType(e.heap, GetProperty(o, key)),
                        GetProperty(o, key))))
          ELSE IF ~hasOld /\ hasNew
          THEN diffObjectFrom(e, refs, stk, oldValue, newValue, path, keys, i + 1,
                 Append(children,
                   addedNode(Append(path, key), getValueType(e.heap, GetProperty(n, key)),
                      GetProperty(n, key))))
          ELSE diffObjectFrom(e, refs, stk, oldValue, newValue, path, keys, i + 1, children)

diffObject(e, refs, stk, oldValue, newValue, path) ==
  LET oldKeys == e.heap[oldValue[2]].keys
      newKeys == e.heap[newValue[2]].keys
      r == diffObjectFrom(e, refs, stk, oldValue, newValue, path,
                          allKeysOf(oldKeys, newKeys), 1, <<>>)
  IN IF r.thrown THEN Thrown(r.refs)
     ELSE Returned(Node(IF hasChanges(r.children) THEN "modified" ELSE "unchanged",
                        path, "object", TRUE, oldValue, TRUE, newValue, TRUE, r.children),
                   r.refs)

\* the for loop of diffArray over the ops of the edit script, from the k-th on
diffArrayLcsFrom(e, refs, stk, oldValue, newValue, path, ops, k, oldIndex, newIndex, children) ==
  IF k > Len(ops) THEN [thrown |-> FALSE, children |-> children, refs |-> refs]
  ELSE LET old == e.heap[oldValue[2]].vals
           new == e.heap[newValue[2]].vals
       IN CASE ops[k].type = "keep" ->
                 LET r == diff(e, refs, stk, old[oldIndex + 1], new[newIndex + 1],
                               Append(path, String(newIndex)))
                 IN IF r.thrown
                    THEN [thrown |-> TRUE, children |-> children, refs |-> r.refs]
                    ELSE diffArrayLcsFrom(e, r.refs, stk, oldValue, newValue, path, ops,
                           k + 1, oldIndex + 1, newIndex + 1, Append(children, r.node))
            [] ops[k].type = "add" ->
                 diffArrayLcsFrom(e, refs, stk, oldValue, newValue, path, ops,
                   k + 1, oldIndex, newIndex + 1,
                   Append(children,
                     addedNode(Append(path, String(newIndex)),
                          getValueType(e.heap, new[newIndex + 1]),
                          new[newIndex + 1])))
            [] ops[k].type = "delete" ->
                 diffArrayLcsFrom(e, refs, stk, oldValue, newValue, path, ops,
                   k + 1, oldIndex + 1, newIndex,
                   Append(children,
                     deletedNode(Append(path, String(oldIndex)),
                          getValueType(e.heap, old[oldIndex + 1]),
                          old[oldIndex + 1])))
            [] ops[k].type = "modify" ->
                 diffArrayLcsFrom(e, refs, stk, oldValue, newValue, path, ops,
                   k + 1, oldIndex + 1, newIndex + 1,
                   Append(children,
                     Node("modified", Append(path, String(newIndex)),
                          getValueType(e.heap, old[oldIndex + 1]),
                          TRUE, old[oldIndex + 1], TRUE, new[newIndex + 1], FALSE, <<>>)))

\* the for loop of diffArray's position mode, from index i on
diffArrayPositionFrom(e, refs, stk, oldValue, newValue, path, i, children) ==
  LET old == e.heap[oldValue[2]].vals
      new == e.heap[newValue[2]].vals
      maxLength == IF Len(old) >= Len(new) THEN Len(old) ELSE Len(new)
      hasOld == i < Len(old)
      hasNew == i < Len(new)
  IN IF ~(i < maxLength) THEN [thrown |-> FALSE, children |-> children, refs |-> refs]
     ELSE IF hasOld /\ hasNew
     THEN LET r == diff(e, refs, stk, old[i + 1], new[i + 1], Append(path, String(i)))
          IN IF r.thrown THEN [thrown |-> TRUE, children |-> children, refs |-> r.refs]
             ELSE diffArrayPositionFrom(e, r.refs, stk, oldValue, newValue, path, i + 1,
                                        Append(children, r.node))
     ELSE IF hasOld /\ ~hasNew
     THEN diffArrayPositionFrom(e, refs, stk, oldValue, newValue, path, i + 1,
            Append(children,
              deletedNode(Append(path, String(i)), getValueType(e.heap, old[i + 1]),
                        old[i + 1])))
     ELSE diffArrayPositionFrom(e, refs, stk, oldValue, newValue, path, i + 1,
            Append(children,
              addedNode(Append(path, String(i)), getValueType(e.heap, new[i + 1]),
                      new[i + 1])))

diffArray(e, refs, stk, oldValue, newValue, path) ==
  LET old == e.heap[oldValue[2]].vals
      new == e.heap[newValue[2]].vals
      script == IF e.options.arrayDiffMode = "lcs" THEN lcsDiff(e.heap, old, new)
                ELSE [thrown |-> FALSE, ops |-> <<>>]
      r == IF e.options.arrayDiffMode = "lcs"
           THEN IF script.thrown
                THEN [thrown |-> TRUE, children |-> <<>>, refs |-> refs]
                ELSE diffArrayLcsFrom(e, refs, stk, oldValue, newValue, path,
                                      script.ops, 1, 0, 0, <<>>)
           ELSE diffArrayPositionFrom(e, refs, stk, oldValue, newValue, path, 0, <<>>)
  IN IF r.thrown THEN Thrown(r.refs)
     ELSE Returned(Node(IF hasChanges(r.children) THEN "modified" ELSE "unchanged",
                        path, "array", TRUE, oldValue, TRUE, newValue, TRUE, r.children),
                   r.refs)

\* diffFunction, diffDate, diffRegExp, diffSymbol: equal normalized forms give
\* Unchanged, anything else Modified; never children.
leafNode(same, path, valueType, oldValue, newValue) ==
  Node(IF same THEN "unchanged" ELSE "modified", path, valueType,
       TRUE, oldValue, TRUE, newValue, FALSE, <<>>)

diffFunction(oldValue, newValue, path) ==
  leafNode(normalizeFunction(oldValue) = normalizeFunction(newValue),
           path, "function", oldValue, newValue)

diffDate(h, oldValue, newValue, path) ==
  leafNode(StrictEq(normalizeDate(h, oldValue), normalizeDate(h, newValue)),
           path, "date", oldValue, newValue)

diffRegExp(h, oldValue, newValue, path) ==
  leafNode(normalizeRegExp(h, oldValue) = normalizeRegExp(h, newValue),
           path, "regexp", oldValue, newValue)

diffSymbol(oldValue, newValue, path) ==
  leafNode(normalizeSymbol(oldValue) = normalizeSymbol(newValue),
           path, "symbol", oldValue, newValue)

\* DiffEngine.diff.  Without cycle detection and without a finite depth limit
\* nothing ends a recursion that meets the pair it is already comparing.
diff(e, refs, stk, oldValue, newValue, path) ==
  IF e.options.detectCircular /\ (isCircular(refs, oldValue) \/ isCircular(refs, newValue))
  THEN Returned(createCircularNode(path, oldValue, newValue), refs)
  ELSE IF depthReached(path, e.options.maxDepth)
  THEN Returned(createMaxDepthNode(e.heap, path, oldValue, newValue), refs)
  ELSE LET refs1 == IF e.options.detectCircular
                    THEN markVisited(refs, oldValue, newValue) ELSE refs
           oldType == getValueType(e.heap, oldValue)
           newType == getValueType(e.heap, newValue)
           stk1 == stk \cup {<<oldValue, newValue>>}
       IN IF oldType # newType
          THEN Returned(createModifiedNode(path, oldValue, newValue, oldType, newType), refs1)
          ELSE IF oldType \in {"primitive", "null", "undefined"}
          THEN Returned(diffPrimitive(oldValue, newValue, path, oldType), refs1)
          ELSE IF <<oldValue, newValue>> \in stk /\ ~e.options.detectCircular
                  /\ e.options.maxDepth[1] # "num" /\ e.options.maxDepth[1] # "half"
          THEN Thrown(refs1)
          ELSE IF oldType = "object"
          THEN diffObject(e, refs1, stk1, oldValue, newValue, path)
          ELSE IF oldType = "array"
          THEN diffArray(e, refs1, stk1, oldValue, newValue, path)
          ELSE IF oldType = "function"
          THEN Returned(diffFunction(oldValue, newValue, path), refs1)
          ELSE IF oldType = "date"
          THEN Returned(diffDate(e.heap, oldValue, newValue, path), refs1)
          ELSE IF oldType = "regexp"
          THEN Returned(diffRegExp(e.heap, oldValue, newValue, path), refs1)
          ELSE Returned(diffSymbol(oldValue, newValue, path), refs1)

\* DiffEngine.computeStats: traverse(n) adds one to the counter of n.type and
\* then traverses the children.
RECURSIVE traverse(_, _)
RECURSIVE traverseChildren(_, _, _)
traverseChildren(children, i, stats) ==
  IF i > Len(children) THEN stats
  ELSE traverseChildren(children, i + 1, traverse(children[i], stats))
traverse(n, stats) ==
  LET counted == IF n.type \in DOMAIN stats THEN [stats EXCEPT ![n.type] = @ + 1]
                 ELSE stats
  IN IF n.hasChildren THEN traverseChildren(n.children, 1, counted) ELSE counted

NoStats == [added |-> 0, deleted |-> 0, modified |-> 0, unchanged |-> 0]

\* A count that started at the children and left out the node itself.
computeStatsBelowRoot(node) ==
  IF node.hasChildren
  THEN traverseChildren(node.children, 1,
                        [added |-> 0, deleted |-> 0, modified |-> 0, unchanged |-> 0])
  ELSE [added |-> 0, deleted |-> 0, modified |-> 0, unchanged |-> 0]

computeStats(node) ==
  traverse(node, [added |-> 0, deleted |-> 0, modified |-> 0, unchanged |-> 0])

\* DiffEngine.compute on an engine whose circularRefs is refs: replace
\* circularRefs by a new WeakSet, diff from the empty path, add the stats.
\* A compute that kept the circularRefs of the earlier calls.
\* return { root, stats }, for the root r that this.diff() gave
diffResult(r) ==
  [thrown |-> r.thrown, root |-> r.node,
   stats |-> IF r.thrown THEN NoStats ELSE computeStats(r.node),
   refs |-> r.refs]

computeWithoutReset(e, refs, oldValue, newValue) ==
  diffResult(diff(e, refs, {}, oldValue, newValue, <<>>))

compute(e, refs, oldValue, newValue) ==
  diffResult(diff(e, {}, {}, oldValue, newValue, <<>>))

(***************************************************************************)
(* DiffResultBuilder                                                        *)
(***************************************************************************)
\* DiffResultBuilder.computeStats
RECURSIVE builderTraverse(_, _)
RECURSIVE builderTraverseChildren(_, _, _)
builderTraverseChildren(children, i, stats) ==
  IF i > Len(children) THEN stats
  ELSE builderTraverseChildren(children, i + 1, builderTraverse(children[i], stats))
builderTraverse(node, stats) ==
  LET counted == IF node.type \in DOMAIN stats THEN [stats EXCEPT ![node.type] = @ + 1]
                 ELSE stats
  IN IF node.hasChildren THEN builderTraverseChildren(node.children, 1, counted)
     ELSE counted

builderComputeStats(root) ==
  builderTraverse(root, [added |-> 0, deleted |-> 0, modified |-> 0, unchanged |-> 0])

\* DiffResultBuilder.countNodes
RECURSIVE countNodes(_)
RECURSIVE countNodesIn(_, _)
countNodesIn(children, i) ==
  IF i > Len(children) THEN 0
  ELSE countNodes(children[i]) + countNodesIn(children, i + 1)
countNodes(node) ==
  1 + (IF node.hasChildren THEN countNodesIn(node.children, 1) ELSE 0)

\* DiffResultBuilder.pathsEqual
RECURSIVE pathsEqualFrom(_, _, _)
pathsEqualFrom(path1, path2, i) ==
  IF i > Len(path1) THEN TRUE
  ELSE IF path1[i] # path2[i] THEN FALSE
  ELSE pathsEqualFrom(path1, path2, i + 1)
pathsEqual(path1, path2) ==
  IF Len(path1) # Len(path2) THEN FALSE ELSE pathsEqualFrom(path1, path2, 1)

\* DiffResultBuilder.findNodeByPath: the first node in pre-order whose path is
\* targetPath.  The node found is told by its position, the child indices
\* that lead to it from the node the search started at; at is the position
\* of root.
NotFound == [found |-> FALSE, position |-> <<>>, node |-> NoNode]
RECURSIVE findNodeByPathAt(_, _, _)
RECURSIVE findNodeByPathIn(_, _, _, _)
findNodeByPathIn(root, targetPath, at, i) ==
  IF i > Len(root.children) THEN NotFound
  ELSE LET found == findNodeByPathAt(root.children[i], targetPath, Append(at, i))
       IN IF found.found THEN found
          ELSE findNodeByPathIn(root, targetPath, at, i + 1)
findNodeByPathAt(root, targetPath, at) ==
  IF pathsEqual(root.path, targetPath)
  THEN [found |-> TRUE, position |-> at, node |-> root]
  ELSE IF root.hasChildren THEN findNodeByPathIn(root, targetPath, at, 1)
  ELSE NotFound
findNodeByPath(root, targetPath) == findNodeByPathAt(root, targetPath, <<>>)

(***************************************************************************)
(* The values the comparisons are run on                                    *)
(***************************************************************************)
\* The heap the inputs live in.  Besides flat arrays and objects it holds
\* copies (equal content, distinct identity), nested values, values that
\* reference one object from two places, self- and mutually-referencing
\* arrays and objects, an object with an own key that Object.prototype also
\* has, a sparse array, Dates (one invalid) and RegExps.
Heap ==
  [aE     |-> Arr(<<>>),
   a1     |-> Arr(<<Num(1)>>),
   a1c    |-> Arr(<<Num(1)>>),
   a2     |-> Arr(<<Num(2)>>),
   a12    |-> Arr(<<Num(1), Num(2)>>),
   a21    |-> Arr(<<Num(2), Num(1)>>),
   aN     |-> Arr(<<NaN>>),
   aa1    |-> Arr(<<Ref("a1")>>),
   aa1c   |-> Arr(<<Ref("a1c")>>),
   aK1    |-> Arr(<<Ref("oK1")>>),
   aK2    |-> Arr(<<Ref("oK2")>>),
   aTwice |-> Arr(<<Ref("oE"), Ref("oE")>>),
   aSelf  |-> Arr(<<Ref("aSelf")>>),
   aSelfc |-> Arr(<<Ref("aSelfc")>>),
   aCyc   |-> Arr(<<Ref("oSelf")>>),
   aCycc  |-> Arr(<<Ref("oSelfc")>>),
   oE     |-> Obj(<<>>, <<>>),
   oA1    |-> Obj(<<"a">>, <<Num(1)>>),
   oA1c   |-> Obj(<<"a">>, <<Num(1)>>),
   oA2    |-> Obj(<<"a">>, <<Num(2)>>),
   oB2    |-> Obj(<<"b">>, <<Num(2)>>),
   oAB    |-> Obj(<<"a", "b">>, <<Num(1), Num(2)>>),
   oK1    |-> Obj(<<"a", "k">>, <<Num(1), Num(1)>>),
   oK2    |-> Obj(<<"a", "k">>, <<Num(1), Num(2)>>),
   oKA    |-> Obj(<<"k", "a">>, <<Num(1), Num(1)>>),
   oK     |-> Obj(<<"k">>, <<Num(1)>>),
   oN     |-> Obj(<<"a">>, <<NaN>>),
   oNest1 |-> Obj(<<"a">>, <<Ref("oK1")>>),
   oNest2 |-> Obj(<<"a">>, <<Ref("oK2")>>),
   oNestA |-> Obj(<<"a">>, <<Ref("oA1c")>>),
   oArr   |-> Obj(<<"a", "b">>, <<Ref("a12"), Num(2)>>),
   oTwice |-> Obj(<<"a", "b">>, <<Ref("oE"), Ref("oE")>>),
   oPair  |-> Obj(<<"a", "b">>, <<Ref("oE"), Ref("oA1")>>),
   oSelf  |-> Obj(<<"a", "self">>, <<Num(1), Ref("oSelf")>>),
   oSelfc |-> Obj(<<"a", "self">>, <<Num(1), Ref("oSelfc")>>),
   oSelf2 |-> Obj(<<"a", "self">>, <<Num(2), Ref("oSelf2")>>),
   oMut1  |-> Obj(<<"a">>, <<Ref("oMut2")>>),
   oMut2  |-> Obj(<<"a">>, <<Ref("oMut1")>>),
   oT     |-> Obj(<<"toString">>, <<Num(1)>>),
   aHole  |-> SparseArr(<<Undefined>>, {1}),
   dT1    |-> DateObj(Num(1)),
   dT1c   |-> DateObj(Num(1)),
   dNaN   |-> DateObj(NaN),
   rA     |-> RegExpObj(<<"a">>, <<"g">>),
   rAc    |-> RegExpObj(<<"a">>, <<"g">>),
   hobbies1 |-> Arr(<<Str("reading"), Str("gaming")>>),
   hobbies2 |-> Arr(<<Str("reading"), Str("coding"), Str("gaming")>>),
   john1  |-> Obj(<<"name", "age", "hobbies">>,
                  <<Str("John"), Num(25), Ref("hobbies1")>>),
   john2  |-> Obj(<<"name", "age", "hobbies", "email">>,
                  <<Str("John"), Num(26), Ref("hobbies2"), Str("john@example.com")>>),
   alice1 |-> Obj(<<"name", "age">>, <<Str("Alice"), Num(30)>>),
   alice2 |-> Obj(<<"name", "age", "city">>, <<Str("Alice"), Num(31), Str("Paris")>>)]

ObjIds == DOMAIN Heap
Primitives == {Num(1), Num(2), NaN, Str("x"), Fn("f"), Sym("s")}
\* The objects of the README's quick start and of verify-core-package.mjs are
\* compared with each other only.
DocIds == {"hobbies1", "hobbies2", "john1", "john2", "alice1", "alice2"}
DocPairs == {<<Ref("john1"), Ref("john2")>>, <<Ref("alice1"), Ref("alice2")>>}
Inputs == Primitives \cup {Null, Undefined} \cup {Ref(i) : i \in ObjIds \ DocIds}

\* The largest maxDepth a caller passes; the smallest is -1.  A depth is a
\* number: 0.5 is passed as well.
MaxDepthOption == 2
MaxDepths == {Num(d) : d \in (-1)..MaxDepthOption} \cup {NumAndHalf(0)}

\* The DiffOptions objects callers pass: any subset of the four fields; a
\* field that is not given is undefined.
UserOptions ==
  {[given |-> g,
    maxDepth |-> IF "maxDepth" \in g THEN d ELSE Undefined,
    ignoreKeys |-> IF "ignoreKeys" \in g THEN <<"k">> ELSE <<>>,
    arrayDiffMode |-> IF "arrayDiffMode" \in g THEN "position" ELSE "undefined",
    detectCircular |-> IF "detectCircular" \in g THEN FALSE ELSE TRUE] :
       g \in SUBSET {"maxDepth", "ignoreKeys", "arrayDiffMode", "detectCircular"},
       d \in MaxDepths}

NoOptions ==
  [given |-> {}, maxDepth |-> Undefined, ignoreKeys |-> <<>>,
   arrayDiffMode |-> "undefined", detectCircular |-> TRUE]

\* The arrays LCSArrayDiff.diff is run on: up to MaxLen elements, which are
\* numbers, NaN, two equal objects of distinct identity and two equal
\* self-referencing objects of distinct identity.
MaxLen == 2
LcsElements ==
  {Num(1), Num(2), NaN, Ref("oA1"), Ref("oA1c"), Ref("oSelf"), Ref("oSelfc")}
\* Longer arrays of the unit tests and of the documentation.
ExampleArrays ==
  {<<Num(1), Num(2), Num(3), Num(4)>>, <<Num(2), Num(3), Num(5)>>,
   <<Num(1), Num(2), Num(3)>>, <<Num(1), Num(3), Num(2)>>,
   <<Num(2), NaN, Num(1)>>}
Arrays == UNION {[1..n -> LcsElements] : n \in 0..MaxLen} \cup ExampleArrays

\* The engines and the arguments of the engine's life cycle, and how many
\* calls are made on one engine.
MaxCalls == 2
EngineOptions ==
  {constructor(o) : o \in {u \in UserOptions :
                             /\ "detectCircular" \notin u.given
                             /\ "ignoreKeys" \notin u.given
                             /\ u.maxDepth \in {Undefined, Num(1)}
                             /\ Cardinality(u.given) <= 1}}
EngineInputs ==
  {Num(1), Ref("oE"), Ref("oTwice"), Ref("oSelf"), Ref("a1")}

(***************************************************************************)
(* State                                                                    *)
(***************************************************************************)
VARIABLES
  args,          \* the arguments the function diff() is about to be called with
  options,       \* this.options of the engine
  circularRefs,  \* this.circularRefs of the engine
  calls,         \* the number of calls made so far
  call,          \* the last call: which function, on which arguments, and the
                 \* engine's circularRefs when it began
  outcome,       \* what the last call did: returned (root, stats) or threw
  arr1,          \* the arguments LCSArrayDiff.diff is called with
  arr2,
  script,        \* what LCSArrayDiff.diff did: returned ops, or threw
  returned       \* what a call of a static function of LCSArrayDiff or of
                 \* TypeNormalizer on args returned

vars == <<args, options, circularRefs, calls, call, outcome, arr1, arr2, script,
          returned>>

NoArgs == [oldValue |-> Undefined, newValue |-> Undefined, options |-> NoOptions]
NoCall == [op |-> "none", oldValue |-> Undefined, newValue |-> Undefined,
           refsBefore |-> {}]
NoOutcome == [kind |-> "none", root |-> NoNode, stats |-> NoStats]
NoScript == [kind |-> "none", ops |-> <<>>]
NoReturn == [kind |-> "none"]

\* what a direct call of the method diff() gives: a DiffNode and no stats
nodeOnly(r) ==
  [thrown |-> r.thrown, root |-> r.node, stats |-> NoStats, refs |-> r.refs]

outcomeOf(r) ==
  IF r.thrown THEN [kind |-> "threw", root |-> NoNode, stats |-> NoStats]
  ELSE [kind |-> "returned", root |-> r.root, stats |-> r.stats]

(***************************************************************************)
(* Spec: the function diff(oldValue, newValue, options)                     *)
(***************************************************************************)
Init ==
  /\ args \in [oldValue : Inputs, newValue : Inputs, options : UserOptions]
              \cup {[oldValue |-> d[1], newValue |-> d[2], options |-> u] :
                       d \in DocPairs, u \in UserOptions}
  /\ options = DefaultOptions
  /\ circularRefs = {}
  /\ calls = 0
  /\ call = NoCall
  /\ outcome = NoOutcome
  /\ arr1 = <<>> /\ arr2 = <<>> /\ script = NoScript
  /\ returned = NoReturn

\* export function diff: a new engine, then compute
DiffFn ==
  /\ calls = 0
  /\ LET engine == [heap |-> Heap, options |-> constructor(args.options)]
         r == compute(engine, {}, args.oldValue, args.newValue)
     IN /\ options' = engine.options
        /\ circularRefs' = r.refs
        /\ outcome' = outcomeOf(r)
  /\ calls' = 1
  /\ call' = [op |-> "diff", oldValue |-> args.oldValue, newValue |-> args.newValue,
              refsBefore |-> {}]
  /\ UNCHANGED <<args, arr1, arr2, script, returned>>

Next == DiffFn

Spec == Init /\ [][Next]_vars

(***************************************************************************)
(* SpecEngine: calls of compute() and of diff() on one DiffEngine           *)
(***************************************************************************)
InitEngine ==
  /\ args = NoArgs
  /\ options \in EngineOptions
  /\ circularRefs = {}
  /\ calls = 0
  /\ call = NoCall
  /\ outcome = NoOutcome
  /\ arr1 = <<>> /\ arr2 = <<>> /\ script = NoScript
  /\ returned = NoReturn

\* engine.compute(oldValue, newValue)
Compute(oldValue, newValue) ==
  /\ LET r == compute([heap |-> Heap, options |-> options], circularRefs,
                      oldValue, newValue)
     IN /\ circularRefs' = r.refs
        /\ outcome' = outcomeOf(r)
  /\ calls' = calls + 1
  /\ call' = [op |-> "compute", oldValue |-> oldValue, newValue |-> newValue,
              refsBefore |-> circularRefs]
  /\ UNCHANGED <<args, options, arr1, arr2, script, returned>>

\* engine.diff(oldValue, newValue): the public method, path defaulted to []
DiffMethod(oldValue, newValue) ==
  /\ LET r == nodeOnly(diff([heap |-> Heap, options |-> options], circularRefs, {},
                            oldValue, newValue, <<>>))
     IN /\ circularRefs' = r.refs
        /\ outcome' = outcomeOf(r)
  /\ calls' = calls + 1
  /\ call' = [op |-> "engine.diff", oldValue |-> oldValue, newValue |-> newValue,
              refsBefore |-> circularRefs]
  /\ UNCHANGED <<args, options, arr1, arr2, script, returned>>

NextEngine ==
  /\ calls < MaxCalls
  /\ \E oldValue \in EngineInputs, newValue \in EngineInputs :
       \/ Compute(oldValue, newValue)
       \/ DiffMethod(oldValue, newValue)

SpecEngine == InitEngine /\ [][NextEngine]_vars

(***************************************************************************)
(* SpecLCS: LCSArrayDiff.diff(arr1, arr2)                                   *)
(***************************************************************************)
InitLCS ==
  /\ args = NoArgs
  /\ options = DefaultOptions
  /\ circularRefs = {}
  /\ calls = 0
  /\ call = NoCall
  /\ outcome = NoOutcome
  /\ arr1 \in Arrays /\ arr2 \in Arrays
  /\ script = NoScript
  /\ returned = NoReturn

LcsDiff ==
  /\ calls = 0
  /\ LET r == lcsDiff(Heap, arr1, arr2)
     IN script' = [kind |-> IF r.thrown THEN "threw" ELSE "returned", ops |-> r.ops]
  /\ calls' = 1
  /\ UNCHANGED <<args, options, circularRefs, call, outcome, arr1, arr2, returned>>

NextLCS == LcsDiff

SpecLCS == InitLCS /\ [][NextLCS]_vars

(***************************************************************************)
(* SpecEq: LCSArrayDiff.isEqual(a, b) and LCSArrayDiff.isEqual(b, a)        *)
(***************************************************************************)
\* The values isEqual is run on: the inputs of diff, and values that differ
\* from them in one respect only.
EqValues == Inputs \cup {Fn("g"), Sym("t")}

InitEq ==
  /\ args \in [oldValue : EqValues, newValue : EqValues, options : {NoOptions}]
  /\ options = DefaultOptions
  /\ circularRefs = {}
  /\ calls = 0
  /\ call = NoCall
  /\ outcome = NoOutcome
  /\ arr1 = <<>> /\ arr2 = <<>> /\ script = NoScript
  /\ returned = NoReturn

\* isEqual(a, b), then isEqual(b, a); a RangeError is the result "overflow"
IsEqualBothWays ==
  /\ calls = 0
  /\ returned' = [kind |-> "isEqual",
                  ab |-> isEqual(Heap, args.oldValue, args.newValue, {}),
                  ba |-> isEqual(Heap, args.newValue, args.oldValue, {})]
  /\ calls' = 1
  /\ UNCHANGED <<args, options, circularRefs, call, outcome, arr1, arr2, script>>

NextEq == IsEqualBothWays

SpecEq == InitEq /\ [][NextEq]_vars

(***************************************************************************)
(* SpecSerialize: TypeNormalizer.serialize(value, getValueType(value))      *)
(***************************************************************************)
SerializeValues == EqValues \cup {Infinity, Num(0), Str("")}

InitSerialize ==
  /\ args \in [oldValue : SerializeValues, newValue : {Undefined}, options : {NoOptions}]
  /\ options = DefaultOptions
  /\ circularRefs = {}
  /\ calls = 0
  /\ call = NoCall
  /\ outcome = NoOutcome
  /\ arr1 = <<>> /\ arr2 = <<>> /\ script = NoScript
  /\ returned = NoReturn

Serialize ==
  /\ calls = 0
  /\ LET r == serialize(Heap, args.oldValue, getValueType(Heap, args.oldValue))
     IN returned' = [kind |-> IF r.thrown THEN "serialize threw" ELSE "serialize",
                     value |-> r.value]
  /\ calls' = 1
  /\ UNCHANGED <<args, options, circularRefs, call, outcome, arr1, arr2, script>>

NextSerialize == Serialize

SpecSerialize == InitSerialize /\ [][NextSerialize]_vars

(***************************************************************************)
(* SpecRegExp: TypeNormalizer.normalizeRegExp on two RegExps                *)
(***************************************************************************)
\* The RegExps: a source of 1 to MaxSourceLen characters, one of them the
\* character '|', another one a letter that is also a flag; the flags as
\* RegExp.prototype.flags gives them, letters in alphabetical order.
MaxSourceLen == 2
SourceChars == {"a", "|", "g"}
Sources == UNION {[1..n -> SourceChars] : n \in 1..MaxSourceLen}
Flags == {<<>>, <<"g">>, <<"i">>, <<"g", "i">>}
RegExps == {RegExpObj(source, flags) : source \in Sources, flags \in Flags}

InitRegExp ==
  /\ \E r1 \in RegExps, r2 \in RegExps :
       args = [oldValue |-> Ref("r1"), newValue |-> Ref("r2"), options |-> NoOptions,
               heap |-> [r1 |-> r1, r2 |-> r2]]
  /\ options = DefaultOptions
  /\ circularRefs = {}
  /\ calls = 0
  /\ call = NoCall
  /\ outcome = NoOutcome
  /\ arr1 = <<>> /\ arr2 = <<>> /\ script = NoScript
  /\ returned = NoReturn

NormalizeRegExps ==
  /\ calls = 0
  /\ returned' = [kind |-> "normalizeRegExp",
                  normalized1 |-> normalizeRegExp(args.heap, args.oldValue),
                  normalized2 |-> normalizeRegExp(args.heap, args.newValue)]
  /\ calls' = 1
  /\ UNCHANGED <<args, options, circularRefs, call, outcome, arr1, arr2, script>>

NextRegExp == NormalizeRegExps

SpecRegExp == InitRegExp /\ [][NextRegExp]_vars

(***************************************************************************)
(* Vocabulary of the properties                                             *)
(***************************************************************************)
DiffTypes == {"added", "deleted", "modified", "unchanged"}

\* The positions of a tree, as sequences of child indices, and the node at one.
RECURSIVE Positions(_)
Positions(n) ==
  {<<>>} \cup (IF n.hasChildren
               THEN UNION {{<<i>> \o p : p \in Positions(n.children[i])} :
                             i \in 1..Len(n.children)}
               ELSE {})

RECURSIVE NodeAt(_, _)
NodeAt(n, p) == IF p = <<>> THEN n ELSE NodeAt(n.children[p[1]], Tail(p))

Tally(root, type) == Cardinality({p \in Positions(root) : NodeAt(root, p).type = type})

\* The paths and classifications of a tree, without the values.
RECURSIVE ShapeOf(_)
ShapeOf(n) ==
  [type |-> n.type, path |-> n.path,
   children |-> IF n.hasChildren
                THEN [i \in 1..Len(n.children) |-> ShapeOf(n.children[i])]
                ELSE <<>>]

\* The objects a heap object references, and all it reaches in one or more steps.
Succ(h, i) ==
  IF h[i].kind \notin {"array", "object"} THEN {}
  ELSE {h[i].vals[k][2] : k \in {j \in 1..Len(h[i].vals) : h[i].vals[j][1] = "ref"}}

RECURSIVE ReachFrom(_, _, _)
ReachFrom(h, frontier, seen) ==
  IF frontier = {} THEN seen
  ELSE LET next == UNION {Succ(h, i) : i \in frontier} \ seen
       IN ReachFrom(h, next, seen \cup next)

Below(h, i) == ReachFrom(h, Succ(h, i), Succ(h, i))
ObjectsOf(h, v) == IF IsObjectLike(v) THEN {v[2]} \cup Below(h, v[2]) ELSE {}

\* v contains a reference cycle
Cyclic(h, v) == \E i \in ObjectsOf(h, v) : i \in Below(h, i)

\* the number of slots in v that reference object j
InDegree(h, v, j) ==
  Cardinality({<<i, k>> \in ObjectsOf(h, v) \X (1..9) :
                 k <= Len(h[i].vals) /\ h[i].vals[k] = Ref(j)})

\* v is a tree: no cycle, and no object referenced from two places
TreeShaped(h, v) ==
  ~Cyclic(h, v) /\ \A j \in ObjectsOf(h, v) : InDegree(h, v, j) <= 1

ContainsNaN(h, v) ==
  v = NaN \/ \E i \in ObjectsOf(h, v) : NaN \in Range(h[i].vals)

\* v and w are trees that differ at most in the values stored under the keys
\* of ignoreKeys (same kinds, same lengths, same keys in the same order).
RECURSIVE SameButIgnored(_, _, _, _)
SameButIgnored(h, ignoreKeys, v, w) ==
  IF ~IsObjectLike(v) \/ ~IsObjectLike(w) THEN v = w
  ELSE LET a == h[v[2]]
           b == h[w[2]]
       IN /\ a.kind = b.kind
          /\ a.kind \notin {"array", "object"} => a = b
          /\ a.kind \in {"array", "object"}
          /\ a.keys = b.keys
          /\ Len(a.vals) = Len(b.vals)
          /\ \A k \in 1..Len(a.vals) :
               \/ (a.kind = "object" /\ a.keys[k] \in Range(ignoreKeys))
               \/ SameButIgnored(h, ignoreKeys, a.vals[k], b.vals[k])

HasReturned == outcome.kind = "returned"
IsDiffCall == call.op = "diff"
TreeNodes == {NodeAt(outcome.root, p) : p \in Positions(outcome.root)}

\* maxDepth is a depth: a number >= 0 or Infinity
ValidMaxDepth(maxDepth) ==
  \/ maxDepth = Infinity
  \/ maxDepth[1] = "num" /\ maxDepth[2] >= 0
  \/ maxDepth[1] = "half" /\ maxDepth[2] >= 0

\* every node of the tree is Unchanged
RECURSIVE allNodesUnchanged(_)
allNodesUnchanged(node) ==
  /\ node.type = "unchanged"
  /\ node.hasChildren =>
       \A i \in 1..Len(node.children) : allNodesUnchanged(node.children[i])

(***************************************************************************)
(* C1..C8: the function diff(oldValue, newValue, options)                   *)
(***************************************************************************)
\* C1: with detectCircular enabled and a valid maxDepth, diff() returns a
\* DiffResult and does not throw, for every pair of inputs, cyclic ones
\* included, wherever the cyclic value sits.
C1_TotalWithCycleDetection ==
  (IsDiffCall /\ options.detectCircular /\ ValidMaxDepth(options.maxDepth))
    => outcome.kind = "returned"

\* C2: diff(v, v) under default options has only Unchanged nodes and stats
\* {added 0, deleted 0, modified 0, unchanged > 0}, also when v references a
\* sub-object from two places.  Stated for v without reference cycle and
\* without NaN.
C2_Reflexivity ==
  (IsDiffCall /\ options = DefaultOptions /\ call.oldValue = call.newValue
     /\ ~Cyclic(Heap, call.oldValue) /\ ~ContainsNaN(Heap, call.oldValue))
    => /\ HasReturned
       /\ allNodesUnchanged(outcome.root)
       /\ outcome.stats.added = 0 /\ outcome.stats.deleted = 0
       /\ outcome.stats.modified = 0 /\ outcome.stats.unchanged > 0

\* C3: the stats of every DiffResult equal the tally of the tree's nodes by
\* classification, equal DiffResultBuilder.computeStats(root), and add up to
\* DiffResultBuilder.countNodes(root).
C3_StatsConsistency ==
  HasReturned =>
    /\ \A t \in DiffTypes : outcome.stats[t] = Tally(outcome.root, t)
    /\ outcome.stats = builderComputeStats(outcome.root)
    /\ outcome.stats.added + outcome.stats.deleted + outcome.stats.modified
         + outcome.stats.unchanged = countNodes(outcome.root)

C3_Witness ==
  /\ IsDiffCall /\ HasReturned
  /\ \A t \in DiffTypes : outcome.stats[t] > 0
  /\ countNodes(outcome.root) > 4

\* C4: an Added node has newValue and no oldValue, a Deleted node oldValue and
\* no newValue, a Modified or Unchanged node both, circular-reference and
\* max-depth leaves included.
C4_ValuePresence ==
  HasReturned =>
    \A n \in TreeNodes :
      /\ n.type \in DiffTypes
      /\ n.type = "added" => (n.hasNew /\ ~n.hasOld)
      /\ n.type = "deleted" => (n.hasOld /\ ~n.hasNew)
      /\ n.type \in {"modified", "unchanged"} => (n.hasOld /\ n.hasNew)

C4_Witness ==
  /\ IsDiffCall /\ HasReturned
  /\ \E n \in TreeNodes : n.type = "added"
  /\ \E n \in TreeNodes : n.type = "deleted"
  /\ \E n \in TreeNodes : n.oldValue \in {CircularMarker, MaxDepthMarker}

\* C5: the root path is empty, and the path of every child is the path of its
\* parent followed by one more segment.
C5_StructuralPaths ==
  HasReturned =>
    /\ outcome.root.path = <<>>
    /\ \A p \in Positions(outcome.root) :
         LET n == NodeAt(outcome.root, p)
         IN n.hasChildren =>
              \A i \in 1..Len(n.children) :
                 /\ Len(n.children[i].path) = Len(n.path) + 1
                 /\ SubSeq(n.children[i].path, 1, Len(n.path)) = n.path

C5_Witness ==
  /\ IsDiffCall /\ HasReturned
  /\ \E p \in Positions(outcome.root) :
       Len(p) = 2 /\ NodeAt(outcome.root, p).type \in {"added", "deleted"}

\* C6: diff() with a negative maxDepth raises a configuration error and
\* returns no DiffResult.
C6_NegativeMaxDepthRejected ==
  (IsDiffCall /\ options.maxDepth[1] = "num" /\ options.maxDepth[2] < 0)
    => outcome.kind # "returned"

\* C7: two input pairs that differ only in the values stored under ignored
\* keys get the same tree of paths and classifications and the same stats.
\* Stated for trees without NaN and without a depth limit, where nothing but
\* the ignored values tells the two pairs apart.
C7_IgnoreKeysNonInterference ==
  (IsDiffCall /\ HasReturned /\ options.maxDepth = Infinity
     /\ options.ignoreKeys # <<>>
     /\ TreeShaped(Heap, call.oldValue) /\ TreeShaped(Heap, call.newValue)
     /\ ~ContainsNaN(Heap, call.oldValue) /\ ~ContainsNaN(Heap, call.newValue))
    => \A old2 \in Inputs, new2 \in Inputs :
         (/\ SameButIgnored(Heap, options.ignoreKeys, call.oldValue, old2)
          /\ SameButIgnored(Heap, options.ignoreKeys, call.newValue, new2))
           => LET r == compute([heap |-> Heap, options |-> options], {}, old2, new2)
              IN /\ ~r.thrown
                 /\ ShapeOf(r.root) = ShapeOf(outcome.root)
                 /\ r.stats = outcome.stats

\* C8: no child of a structurally compared object is a node for a key of
\* ignoreKeys, be the key in old only, in new only or in both.
C8_IgnoredKeysEmitNoNodes ==
  HasReturned =>
    \A n \in TreeNodes :
      (n.valueType = "object" /\ n.hasChildren) =>
         \A i \in 1..Len(n.children) :
            n.children[i].path[Len(n.children[i].path)] \notin Range(options.ignoreKeys)

C8_Witness ==
  /\ IsDiffCall /\ HasReturned
  /\ "k" \in Range(options.ignoreKeys)
  /\ \E n \in TreeNodes :
       /\ n.valueType = "object" /\ n.hasChildren /\ Len(n.path) = 1
       /\ Len(n.children) > 0
       /\ "k" \in Range(Heap[n.oldValue[2]].keys)
       /\ "k" \notin Range(Heap[n.newValue[2]].keys)

(***************************************************************************)
(* C9: one engine, several calls                                            *)
(***************************************************************************)
\* C9: a compute() call on an engine that has served earlier compute() and
\* diff() calls gives what a new engine with the same options gives for the
\* same arguments.
C9_NoStateLeak ==
  call.op = "compute" =>
    outcome = outcomeOf(compute([heap |-> Heap, options |-> options],
                                {}, call.oldValue, call.newValue))

C9_Witness ==
  /\ call.op = "compute" /\ calls = MaxCalls /\ HasReturned
  /\ IsObjectLike(call.oldValue) /\ call.oldValue[2] \in call.refsBefore
  /\ call.oldValue = call.newValue
  /\ allNodesUnchanged(outcome.root)

(***************************************************************************)
(* C10: LCSArrayDiff.diff                                                   *)
(***************************************************************************)
\* The replay of an edit script, as the repository's property tests do it:
\* keep and add push op.value, modify pushes op.newValue, delete nothing.
RECURSIVE applyOpsFrom(_, _, _)
applyOpsFrom(ops, k, result) ==
  IF k > Len(ops) THEN result
  ELSE applyOpsFrom(ops, k + 1,
         IF ops[k].type \in {"keep", "add"} THEN Append(result, ops[k].value)
         ELSE IF ops[k].type = "modify" THEN Append(result, Undefined)
         ELSE result)
applyOps(arr, ops) == applyOpsFrom(ops, 1, <<>>)

\* C10: the script LCSArrayDiff.diff(a, b) returns, replayed, gives an array
\* of the length of b whose elements are isEqual to those of b, position by
\* position, and the value of every keep op is isEqual to an element of a
\* and to an element of b.
C10_EditScriptYieldsTarget ==
  script.kind = "returned" =>
    LET result == applyOps(arr1, script.ops)
    IN /\ Len(result) = Len(arr2)
       /\ \A i \in 1..Len(arr2) : isEqual(Heap, result[i], arr2[i], {}) = "true"
       /\ \A k \in 1..Len(script.ops) :
            script.ops[k].type = "keep" =>
              /\ \E i \in 1..Len(arr1) :
                    isEqual(Heap, arr1[i], script.ops[k].value, {}) = "true"
              /\ \E j \in 1..Len(arr2) :
                    isEqual(Heap, arr2[j], script.ops[k].value, {}) = "true"

(***************************************************************************)
(* C11: the edit script is minimal                                          *)
(***************************************************************************)
\* The number of ops of a type in a script.
CountOps(ops, type) == Cardinality({k \in 1..Len(ops) : ops[k].type = type})

\* The k-th smallest member of a set of indices.
NthIndex(S, k) == CHOOSE x \in S : Cardinality({y \in S : y < x}) = k - 1

\* The lengths of the common subsequences of a and b under isEqual: pick as
\* many indices of a as of b and pair them in ascending order.
CommonSubsequenceLengths(h, a, b) ==
  {Cardinality(I) : I \in {II \in SUBSET (1..Len(a)) :
     \E J \in SUBSET (1..Len(b)) :
        /\ Cardinality(J) = Cardinality(II)
        /\ \A k \in 1..Cardinality(II) :
             isEqual(h, a[NthIndex(II, k)], b[NthIndex(J, k)], {}) = "true"}}

LongestCommonSubsequence(h, a, b) ==
  CHOOSE l \in CommonSubsequenceLengths(h, a, b) :
    \A l2 \in CommonSubsequenceLengths(h, a, b) : l2 <= l

MinOf(x, y) == IF x <= y THEN x ELSE y

\* C11: a script LCSArrayDiff.diff(a, b) returns has exactly L keep ops,
\* a.length - L delete ops, b.length - L add ops and no modify op, where
\* L = computeLCS(a, b)[a.length][b.length] is the length of the longest
\* common subsequence under isEqual, and L <= min(a.length, b.length).
C11_MinimalEditScript ==
  script.kind = "returned" =>
    LET L == computeLCS(Heap, arr1, arr2).dp[<<Len(arr1), Len(arr2)>>]
    IN /\ L = LongestCommonSubsequence(Heap, arr1, arr2)
       /\ CountOps(script.ops, "keep") = L
       /\ CountOps(script.ops, "delete") = Len(arr1) - L
       /\ CountOps(script.ops, "add") = Len(arr2) - L
       /\ CountOps(script.ops, "modify") = 0
       /\ Len(script.ops) = Len(arr1) + Len(arr2) - L
       /\ L <= MinOf(Len(arr1), Len(arr2))

\* [1,2,3,4] against [2,3,5]: keep 2 and 3, delete 1 and 4, add 5.
C11_Witness ==
  /\ script.kind = "returned"
  /\ arr1 = <<Num(1), Num(2), Num(3), Num(4)>>
  /\ arr2 = <<Num(2), Num(3), Num(5)>>
  /\ {script.ops[k].value : k \in {i \in 1..Len(script.ops) : script.ops[i].type = "keep"}}
       = {Num(2), Num(3)}
  /\ {script.ops[k].value : k \in {i \in 1..Len(script.ops) : script.ops[i].type = "delete"}}
       = {Num(1), Num(4)}
  /\ {script.ops[k].value : k \in {i \in 1..Len(script.ops) : script.ops[i].type = "add"}}
       = {Num(5)}

(***************************************************************************)
(* C12, C13: LCSArrayDiff.isEqual                                           *)
(***************************************************************************)
\* C12: isEqual(a, b) = isEqual(b, a) for all values a and b.
C12_IsEqualSymmetric ==
  returned.kind = "isEqual" => returned.ab = returned.ba

\* C13: isEqual(a, b) returns a boolean for every pair of values, two
\* distinct cyclic objects or arrays included.
C13_IsEqualTotal ==
  returned.kind = "isEqual" => returned.ab \in {"true", "false"}

(***************************************************************************)
(* C14: paths are unique                                                    *)
(***************************************************************************)
\* C14: no two distinct nodes of a returned tree have the same path, and
\* findNodeByPath(root, n.path) is n for every node n of the tree.
C14_PathsUnique ==
  (IsDiffCall /\ HasReturned) =>
    /\ \A p \in Positions(outcome.root), q \in Positions(outcome.root) :
         NodeAt(outcome.root, p).path = NodeAt(outcome.root, q).path => p = q
    /\ \A p \in Positions(outcome.root) :
         LET found == findNodeByPath(outcome.root, NodeAt(outcome.root, p).path)
         IN found.found /\ found.position = p

(***************************************************************************)
(* C15: TypeNormalizer.serialize                                            *)
(***************************************************************************)
\* C15: serialize(value, getValueType(value)) returns a string and does not
\* throw, for every value, an object or array with a reference cycle
\* included.
C15_SerializeNeverFails ==
  calls = 1 => (returned.kind = "serialize" /\ returned.value[1] = "str")

(***************************************************************************)
(* C16: TypeNormalizer.normalizeRegExp                                      *)
(***************************************************************************)
\* C16: normalizeRegExp(r1) = normalizeRegExp(r2) exactly when r1 and r2
\* have the same source and the same flags, also for sources that contain
\* the character '|'.
C16_RegExpNormalFormInjective ==
  returned.kind = "normalizeRegExp" =>
    ((returned.normalized1 = returned.normalized2)
       <=> (/\ args.heap.r1.vals[1] = args.heap.r2.vals[1]
            /\ args.heap.r1.vals[2] = args.heap.r2.vals[2]))

\* Two different RegExps, one with '|' in its source, whose sources and
\* flags written one after the other read the same.
C16_Witness ==
  /\ returned.kind = "normalizeRegExp"
  /\ "|" \in Range(args.heap.r1.vals[1])
  /\ args.heap.r1 # args.heap.r2
  /\ args.heap.r1.vals[1] \o args.heap.r1.vals[2]
       = args.heap.r2.vals[1] \o args.heap.r2.vals[2]
  /\ returned.normalized1 # returned.normalized2

(***************************************************************************)
(* C17: the statistics the documentation shows                              *)
(***************************************************************************)
\* C17: under default options diff of the README's quick-start objects has
\* stats {added 1, deleted 0, modified 2, unchanged 1}, and diff of the
\* objects of verify-core-package.mjs has stats.added = 1 and
\* stats.modified = 1.
C17_DocumentedStats ==
  (IsDiffCall /\ args.options.given = {}) =>
    /\ (call.oldValue = Ref("john1") /\ call.newValue = Ref("john2")) =>
         (/\ HasReturned
          /\ outcome.stats = [added |-> 1, deleted |-> 0, modified |-> 2, unchanged |-> 1])
    /\ (call.oldValue = Ref("alice1") /\ call.newValue = Ref("alice2")) =>
         (/\ HasReturned
          /\ outcome.stats.added = 1 /\ outcome.stats.modified = 1)

(***************************************************************************)
(* C18: the cycle check                                                     *)
(***************************************************************************)
IsCircularLeaf(n) ==
  /\ n.type = "modified" /\ ~n.hasChildren
  /\ n.oldValue = CircularMarker /\ n.newValue = CircularMarker

\* The old and new values of the nodes above position p: the objects and
\* arrays under comparison on the path from the root to p.
AncestorValues(root, p) ==
  {v \in UNION {{NodeAt(root, SubSeq(p, 1, j)).oldValue,
                 NodeAt(root, SubSeq(p, 1, j)).newValue} : j \in 0..(Len(p) - 1)} :
     IsObjectLike(v)}

\* The values diff() was called with for the k-th child of an object or
\* array node, a child that is neither Added nor Deleted.  They are read from
\* the parent's old and new value: by key in an object, by index in position
\* mode, and in lcs mode from the k-th op of the edit script (a keep op: its
\* value, and the element at the index that the keep and add ops before it
\* have counted up to).
ValuesOfChild(h, mode, parent, k) ==
  LET c == parent.children[k]
      old == h[parent.oldValue[2]]
      new == h[parent.newValue[2]]
      key == c.path[Len(c.path)]
      ops == lcsDiff(h, old.vals, new.vals).ops
      newIndex == Cardinality({i \in 1..(k - 1) : ops[i].type \in {"keep", "add"}})
  IN IF parent.valueType = "object"
       THEN {GetProperty(old, key), GetProperty(new, key)}
     ELSE IF mode = "position" THEN {old.vals[k], new.vals[k]}
     ELSE {ops[k].value, new.vals[newIndex + 1]}

ValuesAtPosition(h, mode, root, p) ==
  IF p = <<>> THEN {root.oldValue, root.newValue}
  ELSE ValuesOfChild(h, mode, NodeAt(root, SubSeq(p, 1, Len(p) - 1)), p[Len(p)])

\* C18: with detectCircular on, the node diff() gives for a position is the
\* Modified '[Circular Reference]' leaf exactly when the old or the new value
\* there is an object or array under comparison at a position above it; and a
\* self-referencing object compared with another one gives a result whose
\* child for the self edge is that leaf.
C18_CycleCheckPathScoped ==
  (IsDiffCall /\ options.detectCircular /\ options.maxDepth = Infinity) =>
    /\ HasReturned =>
         \A p \in Positions(outcome.root) \ {<<>>} :
            NodeAt(outcome.root, p).type \notin {"added", "deleted"} =>
            (IsCircularLeaf(NodeAt(outcome.root, p))
              <=> \E v \in ValuesAtPosition(Heap, options.arrayDiffMode, outcome.root, p) :
                     IsObjectLike(v) /\ v \in AncestorValues(outcome.root, p))
    /\ (call.oldValue = Ref("oSelf") /\ call.newValue = Ref("oSelfc")) =>
         /\ HasReturned
         /\ \E k \in 1..Len(outcome.root.children) :
              /\ outcome.root.children[k].path = <<"self">>
              /\ IsCircularLeaf(outcome.root.children[k])

(***************************************************************************)
(* C19: two direct calls of engine.diff                                     *)
(***************************************************************************)
\* C19: a call of the public method diff() that follows a call of diff() on
\* the same engine with the same arguments returns an equal DiffNode.
C19_DiffReentrant ==
  [][(/\ call.op = "engine.diff" /\ call'.op = "engine.diff"
      /\ calls' = calls + 1
      /\ call'.oldValue = call.oldValue /\ call'.newValue = call.newValue
      /\ IsObjectLike(call.oldValue) /\ IsObjectLike(call.newValue))
       => outcome' = outcome]_vars

(***************************************************************************)
(* C20: the children of an object node                                      *)
(***************************************************************************)
\* The keys diffObject makes children for, in the order of the children.
ComparedKeys(h, ignoreKeys, oldValue, newValue) ==
  SelectSeq(allKeysOf(h[oldValue[2]].keys, h[newValue[2]].keys),
            LAMBDA key : key \notin Range(ignoreKeys))

\* C20: an object node has one child for each key of (own keys of old, own
\* keys of new) that is not ignored, at path + [key], whatever the key is
\* called: the Deleted leaf carrying old[key] if and only if the key is a key
\* of old only, the Added leaf carrying new[key] if and only if it is a key of
\* new only, and else the comparison of old[key] with new[key].
C20_ObjectKeyDispatch ==
  (IsDiffCall /\ HasReturned) =>
    \A n \in TreeNodes :
      (n.valueType = "object" /\ n.hasChildren) =>
        LET old == Heap[n.oldValue[2]]
            new == Heap[n.newValue[2]]
            keys == ComparedKeys(Heap, options.ignoreKeys, n.oldValue, n.newValue)
        IN /\ Len(n.children) = Len(keys)
           /\ \A i \in 1..Len(keys) :
                LET key == keys[i]
                    c == n.children[i]
                    inOld == key \in Range(old.keys)
                    inNew == key \in Range(new.keys)
                IN /\ c.path = Append(n.path, key)
                   /\ (inOld /\ ~inNew) <=> c.type = "deleted"
                   /\ (inNew /\ ~inOld) <=> c.type = "added"
                   /\ c.type = "deleted" =>
                        (c.oldValue = GetProperty(old, key) /\ ~c.hasChildren)
                   /\ c.type = "added" =>
                        (c.newValue = GetProperty(new, key) /\ ~c.hasChildren)
                   /\ (inOld /\ inNew) =>
                        \/ c.oldValue \in {CircularMarker, MaxDepthMarker}
                        \/ (/\ c.oldValue = GetProperty(old, key)
                            /\ c.newValue = GetProperty(new, key))

(***************************************************************************)
(* C21: the classification of a parent                                      *)
(***************************************************************************)
\* C21: a node with a children array is Modified if one of its children is
\* not Unchanged and Unchanged otherwise, also when it has no child at all;
\* so every node above a node that is not Unchanged is Modified.
C21_ParentClassification ==
  (IsDiffCall /\ HasReturned) =>
    /\ \A n \in TreeNodes :
         n.hasChildren =>
           n.type = (IF \E i \in 1..Len(n.children) : n.children[i].type # "unchanged"
                     THEN "modified" ELSE "unchanged")
    /\ \A p \in Positions(outcome.root) :
         NodeAt(outcome.root, p).type # "unchanged" =>
           \A j \in 0..(Len(p) - 1) :
              NodeAt(outcome.root, SubSeq(p, 1, j)).type = "modified"

\* A change two levels down, next to a parent without children.
C21_Witness ==
  /\ IsDiffCall /\ HasReturned
  /\ \E p \in Positions(outcome.root) :
       Len(p) = 2 /\ NodeAt(outcome.root, p).type \in {"added", "deleted"}
  /\ \E n \in TreeNodes : n.hasChildren /\ n.children = <<>> /\ n.type = "unchanged"

(***************************************************************************)
(* C22: the children of an array node                                       *)
(***************************************************************************)
\* C22: under an array node for old array A and new array B, in either mode,
\* the children that are not Deleted are B.length nodes with the path
\* segments "0", "1", ... (the k-th has Digits[k]); the children that are not
\* Added are A.length nodes
\* that stand for A[0], A[1], ..., a Deleted one having its index in A as path
\* segment; and position mode gives max(A.length, B.length) children.
C22_ArrayChildrenAligned ==
  (IsDiffCall /\ HasReturned) =>
    \A n \in TreeNodes :
      (n.valueType = "array" /\ n.hasChildren) =>
        LET A == Heap[n.oldValue[2]].vals
            B == Heap[n.newValue[2]].vals
            notDeleted == SelectSeq(n.children, LAMBDA c : c.type # "deleted")
            notAdded == SelectSeq(n.children, LAMBDA c : c.type # "added")
        IN /\ Len(notDeleted) = Len(B)
           /\ \A k \in 1..Len(notDeleted) :
                notDeleted[k].path = Append(n.path, Digits[k])
           /\ Len(notAdded) = Len(A)
           /\ \A k \in 1..Len(notAdded) :
                /\ notAdded[k].oldValue \in {A[k], CircularMarker, MaxDepthMarker}
                /\ notAdded[k].type = "deleted" =>
                     /\ notAdded[k].oldValue = A[k]
                     /\ notAdded[k].path = Append(n.path, Digits[k])
           /\ options.arrayDiffMode = "position" =>
                Len(n.children) = (IF Len(A) >= Len(B) THEN Len(A) ELSE Len(B))

\* An array node in lcs mode with a kept, a deleted and an added element.
C22_Witness ==
  /\ IsDiffCall /\ HasReturned /\ options.arrayDiffMode = "lcs"
  /\ \E n \in TreeNodes :
       /\ n.valueType = "array" /\ n.hasChildren
       /\ \E i \in 1..Len(n.children) : n.children[i].type = "deleted"
       /\ \E i \in 1..Len(n.children) : n.children[i].type = "added"
       /\ \E i \in 1..Len(n.children) : n.children[i].type = "unchanged"

(***************************************************************************)
(* C23  Depth bound                                                        *)
(***************************************************************************)
\* len <= d and len = d for a path length len and a finite number d
LengthAtMost(len, d) == len <= d[2]
LengthIs(len, d) == d[1] = "num" /\ len = d[2]

\* the statement for the calls whose maxDepth satisfies Depths
DepthBoundFor(Depths) ==
  (IsDiffCall /\ HasReturned /\ options.maxDepth \in Depths) =>
    /\ \A n \in TreeNodes :
         /\ LengthAtMost(Len(n.path), options.maxDepth)
         /\ LengthIs(Len(n.path), options.maxDepth) => ~n.hasChildren
    /\ options.maxDepth = Num(0) =>
         /\ Positions(outcome.root) = {<<>>}
         /\ ~outcome.root.hasChildren

\* C23 as stated: for any maxDepth d >= 0, every node of the tree returned by
\* diff(old, new, {maxDepth: d}) has path.length <= d, every node with
\* path.length = d has no children, and with d = 0 the result is the single
\* root leaf.
C23_DepthBound ==
  DepthBoundFor({d \in MaxDepths : d[2] >= 0})

\* C23 for whole numbers: the same statement for any integer maxDepth d >= 0.
C23_DepthBoundInteger ==
  DepthBoundFor({d \in MaxDepths : d[1] = "num" /\ d[2] >= 0})

\* With maxDepth 2 two objects nested two deep are compared down to depth 2,
\* where the comparison of two objects is cut to a leaf.
C23_Witness ==
  /\ IsDiffCall /\ HasReturned /\ options.maxDepth = Num(2)
  /\ \E n \in TreeNodes :
       /\ Len(n.path) = 2 /\ ~n.hasChildren
       /\ n.oldValue = MaxDepthMarker /\ n.valueType \in {"object", "array"}

(***************************************************************************)
(* C24  The depth-limit leaf                                               *)
(***************************************************************************)
\* <<old, new>>: the arguments diff() was called with for the k-th child of
\* an object or array node, a child that is neither Added nor Deleted (see
\* ValuesOfChild).
ArgumentsOfChild(h, mode, parent, k) ==
  LET c == parent.children[k]
      old == h[parent.oldValue[2]]
      new == h[parent.newValue[2]]
      key == c.path[Len(c.path)]
      ops == lcsDiff(h, old.vals, new.vals).ops
      newIndex == Cardinality({i \in 1..(k - 1) : ops[i].type \in {"keep", "add"}})
  IN IF parent.valueType = "object"
       THEN <<GetProperty(old, key), GetProperty(new, key)>>
     ELSE IF mode = "position" THEN <<old.vals[k], new.vals[k]>>
     ELSE <<ops[k].value, new.vals[newIndex + 1]>>

ArgumentsAtPosition(h, mode, p) ==
  IF p = <<>> THEN <<call.oldValue, call.newValue>>
  ELSE ArgumentsOfChild(h, mode, NodeAt(outcome.root, SubSeq(p, 1, Len(p) - 1)),
                        p[Len(p)])

\* The node at position p is the result of a call of diff() that passed the
\* cycle check and was stopped by the depth check.
EmittedByDepthCheck(p) ==
  LET n == NodeAt(outcome.root, p)
  IN /\ n.type \notin {"added", "deleted"}
     /\ ~IsCircularLeaf(n)
     /\ options.maxDepth[1] \in {"num", "half"}
     /\ IF options.maxDepth[1] = "num" THEN Len(n.path) >= options.maxDepth[2]
        ELSE Len(n.path) > options.maxDepth[2]

\* C24: a node emitted by the depth check is a childless leaf with
\* '[Max Depth Reached]' as oldValue and as newValue, its valueType is the
\* kind of the old value, and it is Unchanged exactly when old === new and
\* Modified otherwise.
C24_DepthLeafClassification ==
  (IsDiffCall /\ HasReturned) =>
    \A p \in Positions(outcome.root) :
      EmittedByDepthCheck(p) =>
        LET n == NodeAt(outcome.root, p)
            old == ArgumentsAtPosition(Heap, options.arrayDiffMode, p)[1]
            new == ArgumentsAtPosition(Heap, options.arrayDiffMode, p)[2]
        IN /\ ~n.hasChildren /\ n.children = <<>>
           /\ n.hasOld /\ n.oldValue = MaxDepthMarker
           /\ n.hasNew /\ n.newValue = MaxDepthMarker
           /\ n.valueType = getValueType(Heap, old)
           /\ n.type = (IF StrictEq(old, new) THEN "unchanged" ELSE "modified")

\* Below the root the depth check cuts the comparison of two arrays of
\* distinct identity to a Modified leaf of kind array.
C24_Witness ==
  /\ IsDiffCall /\ HasReturned
  /\ \E p \in Positions(outcome.root) \ {<<>>} :
       /\ EmittedByDepthCheck(p)
       /\ NodeAt(outcome.root, p).type = "modified"
       /\ NodeAt(outcome.root, p).valueType = "array"
       /\ IsObjectLike(ArgumentsAtPosition(Heap, options.arrayDiffMode, p)[1])
       /\ IsObjectLike(ArgumentsAtPosition(Heap, options.arrayDiffMode, p)[2])

(***************************************************************************)
(* C25  The tie-break of backtrack                                         *)
(***************************************************************************)
\* The cell (i, j) at which backtrack recorded the k-th op of the script: the
\* ops up to the k-th consume i elements of arr1 (keep, delete) and j
\* elements of arr2 (keep, add).
CellOfOp(ops, k) ==
  <<Cardinality({t \in 1..k : ops[t].type \in {"keep", "delete"}}),
    Cardinality({t \in 1..k : ops[t].type \in {"keep", "add"}})>>

\* C25: at a cell (i, j) with i, j > 0 whose elements are not equal and
\* where dp[i-1][j] = dp[i][j-1], backtrack steps up and records a delete of
\* arr1[i-1], not an add of arr2[j-1].
C25_TieBreakDeletes ==
  script.kind = "returned" =>
    LET dp == computeLCS(Heap, arr1, arr2).dp
    IN \A k \in 1..Len(script.ops) :
         LET i == CellOfOp(script.ops, k)[1]
             j == CellOfOp(script.ops, k)[2]
         IN (/\ i > 0 /\ j > 0
             /\ isEqual(Heap, arr1[i], arr2[j], {}) # "true"
             /\ dp[<<i - 1, j>>] = dp[<<i, j - 1>>])
            => (/\ script.ops[k].type = "delete"
                /\ script.ops[k].index = i - 1
                /\ script.ops[k].value = arr1[i])

(***************************************************************************)
(* C26  valueType                                                          *)
(***************************************************************************)
\* The input value whose kind the node at position p reports: the new value
\* of an Added node, the old value otherwise.
ComparedValue(p) ==
  LET n == NodeAt(outcome.root, p)
  IN IF n.type = "added" THEN n.newValue
     ELSE IF n.type = "deleted" THEN n.oldValue
     ELSE ArgumentsAtPosition(Heap, options.arrayDiffMode, p)[1]

\* C26: for every node of a tree returned by diff(), valueType is
\* TypeNormalizer.getValueType of the old input value at that position (of
\* the new input value for an Added node), also for type-change leaves,
\* max-depth leaves and circular-reference leaves, for objects and arrays.
C26_ValueTypeOfComparedValue ==
  (IsDiffCall /\ HasReturned) =>
    \A p \in Positions(outcome.root) :
      NodeAt(outcome.root, p).valueType = getValueType(Heap, ComparedValue(p))

(***************************************************************************)
(* C27  DiffEngine and LCSArrayDiff.isEqual                                *)
(***************************************************************************)
\* v is built from primitives, null, objects and arrays only
PlainData(h, v) ==
  /\ v[1] \in {"num", "str", "nan", "null", "undef", "ref"}
  /\ \A i \in ObjectsOf(h, v) :
       /\ h[i].kind \in {"object", "array"}
       /\ \A k \in 1..Len(h[i].vals) :
            h[i].vals[k][1] \in {"num", "str", "nan", "null", "undef", "ref"}

\* old and new are trees of plain data, and no object is referenced from two
\* places, in one of them or across the two
TreeShapedInputs(h, old, new) ==
  /\ PlainData(h, old) /\ PlainData(h, new)
  /\ TreeShaped(h, old) /\ TreeShaped(h, new)
  /\ ObjectsOf(h, old) \cap ObjectsOf(h, new) = {}

\* C27: under default options, for tree-shaped inputs, the root of
\* diff(old, new) is Unchanged exactly when LCSArrayDiff.isEqual(old, new) is
\* true.
C27_EngineAgreesWithIsEqual ==
  (/\ IsDiffCall /\ args.options.given = {}
   /\ TreeShapedInputs(Heap, call.oldValue, call.newValue)) =>
     /\ HasReturned
     /\ (outcome.root.type = "unchanged"
          <=> isEqual(Heap, call.oldValue, call.newValue, {}) = "true")

(***************************************************************************)
(* C28  Kept array elements                                                *)
(***************************************************************************)
\* C28: in lcs mode, for tree-shaped inputs and any maxDepth, under an array
\* node the child made for a keep op of the edit script is Unchanged, and an
\* array whose edit script has keep ops only is Unchanged.
C28_KeptElementsUnchanged ==
  (/\ IsDiffCall /\ HasReturned
   /\ args.options.given \subseteq {"maxDepth"}
   /\ TreeShapedInputs(Heap, call.oldValue, call.newValue)) =>
     \A n \in TreeNodes :
       (n.valueType = "array" /\ n.hasChildren) =>
         LET ops == lcsDiff(Heap, Heap[n.oldValue[2]].vals, Heap[n.newValue[2]].vals).ops
         IN /\ \A k \in 1..Len(ops) :
                 ops[k].type = "keep" => n.children[k].type = "unchanged"
            /\ (\A k \in 1..Len(ops) : ops[k].type = "keep") => n.type = "unchanged"

(***************************************************************************)
(* C29  The order of the ops between two keeps                             *)
(***************************************************************************)
\* the indices of the ops of one type, in script order
IndicesOf(ops, type) ==
  LET sel == SelectSeq(ops, LAMBDA o : o.type = type)
  IN [k \in 1..Len(sel) |-> sel[k].index]

\* C29: in the ops LCSArrayDiff.diff(a, b) returns, inside every maximal run
\* of ops that are not keep all delete ops come before all add ops (an add
\* is never directly followed by a delete); the delete ops carry increasing
\* indices of a and the add ops increasing indices of b.
C29_DeletesPrecedeAdds ==
  script.kind = "returned" =>
    LET ops == script.ops
        dels == IndicesOf(ops, "delete")
        adds == IndicesOf(ops, "add")
    IN /\ \A k \in 1..(Len(ops) - 1) :
            ~(ops[k].type = "add" /\ ops[k + 1].type = "delete")
       /\ \A k \in 1..(Len(dels) - 1) : dels[k] < dels[k + 1]
       /\ \A k \in 1..(Len(adds) - 1) : adds[k] < adds[k + 1]
       /\ \A k \in 1..Len(ops) :
            /\ ops[k].type = "delete" =>
                 ops[k].index < Len(arr1) /\ ops[k].value = arr1[ops[k].index + 1]
            /\ ops[k].type = "add" =>
                 ops[k].index < Len(arr2) /\ ops[k].value = arr2[ops[k].index + 1]

\* A script with a keep op and, after it, a gap that holds a delete followed
\* by an add.
C29_Witness ==
  /\ script.kind = "returned"
  /\ \E k \in 2..(Len(script.ops) - 1) :
       /\ script.ops[k - 1].type = "keep"
       /\ script.ops[k].type = "delete"
       /\ script.ops[k + 1].type = "add"

(***************************************************************************)
(* C30  An array against itself and against the empty array                *)
(***************************************************************************)
\* C30: LCSArrayDiff.diff(a, a) is a.length keep ops and nothing else,
\* LCSArrayDiff.diff([], a) has add ops only and LCSArrayDiff.diff(a, []) has
\* delete ops only.
C30_LcsIdentity ==
  script.kind = "returned" =>
    /\ arr1 = arr2 =>
         /\ Len(script.ops) = Len(arr1)
         /\ \A k \in 1..Len(script.ops) : script.ops[k].type = "keep"
    /\ arr1 = <<>> => \A k \in 1..Len(script.ops) : script.ops[k].type = "add"
    /\ arr2 = <<>> => \A k \in 1..Len(script.ops) : script.ops[k].type = "delete"

====
